---------------------------- MODULE Spec2Model ----------------------------
(***************************************************************************)
(* A model of django-spillway's map assembly (spillway/carto.py), feature  *)
(* document model (spillway/collections.py) and geometry file upload field *)
(* (spillway/forms/fields.py).                                             *)
(*                                                                         *)
(* Three specifications share the module:                                  *)
(*   Spec      the Map API: zoom_bbox, layer, add_colorizer_stops, render  *)
(*             and build_map, called in any order on one Map;              *)
(*   SpecColl  as_feature, the Feature / FeatureCollection constructors    *)
(*             and their __str__, applied to inputs drawn from bounded     *)
(*             sets of Python values;                                      *)
(*   SpecFile  GeometryFileField.to_python, statement by statement, with   *)
(*             the file system's temporary directories as state.           *)
(***************************************************************************)
EXTENDS Integers, Sequences, FiniteSets, TLC

VARIABLES
    m,        \* the Map: extent, style registry, layers, symbolizer objects
    call,     \* the most recent call on the Map: its name, its arguments,
              \* the exception it raised ("none" if none), the image it drew
    added,    \* the names of the datasets passed to Map.layer, in call order
    obj,      \* collections.py: the value a call is made on
    cop,      \* the call made on obj: "none" before it, then its name
    ret,      \* what the call returned, or the exception it raised
    printed,  \* str() of the returned object, empty before it is taken
    upload,   \* fields.py: the uploaded file to_python is called on
    pc,       \* the statement of to_python that runs next
    dirs,     \* the temporary directories that exist, each with its files
    tmpdir,   \* to_python's tmpdir: "None" or the directory made
    filename, \* to_python's filename
    item,     \* the index in zf.namelist() of the item extracted next
    geom,     \* to_python's geom
    raising   \* the exception propagating out of to_python, or "none"

mapvars == <<m, call, added>>
collvars == <<obj, cop, ret, printed>>
filevars == <<upload, pc, dirs, tmpdir, filename, item, geom, raising>>
vars == <<m, call, added, obj, cop, ret, printed,
          upload, pc, dirs, tmpdir, filename, item, geom, raising>>

(***************************************************************************)
(* Bounds of the model.                                                    *)
(***************************************************************************)
MaxLayers == 2      \* layers added to one Map
MaxStopCalls == 1   \* add_colorizer_stops calls on one Map
MaxLen == 2         \* elements of a list passed to as_feature
MaxItems == 2       \* members of an uploaded zip archive

Min(a, b) == IF a <= b THEN a ELSE b
Max(a, b) == IF a >= b THEN a ELSE b
Abs(a) == IF a >= 0 THEN a ELSE -a
Range(s) == {s[i] : i \in 1..Len(s)}

(***************************************************************************)
(* carto.py: inputs.  A dataset is a vector queryset (it has a geojson     *)
(* attribute) or a raster store.  NoStyle is Python's None.                *)
(***************************************************************************)
NoStyle == "None"
DefaultRamp == "Spectral_r"

Datasets ==
    { [kind |-> "vector", name |-> "roads", geomtype |-> "LineString", lo |-> 0, hi |-> 0],
      [kind |-> "raster", name |-> "dem",   geomtype |-> "none", lo |-> 0,  hi |-> 100],
      [kind |-> "raster", name |-> "temp",  geomtype |-> "none", lo |-> 10, hi |-> 30] }

StyleNames == {NoStyle, DefaultRamp, "roads"}

\* The limits field's values: CommaSepFloatField.to_python gives [] for
\* an empty value, and a missing key reads as no limits too.
Limits == {<<>>, <<0, 50, 100>>, <<5, 25>>}

\* spillway.colors.colormap: the color ramps registered by style name.
colormap ==
    [n \in {DefaultRamp, "Blues"} |->
        IF n = DefaultRamp THEN <<"color1", "color2", "color3">>
                           ELSE <<"blue1", "blue2">>]

\* colormap.get(name): the ramp, or the empty sequence for None.
colormap_get(name) == IF name \in DOMAIN colormap THEN colormap[name] ELSE <<>>

\* The raster store's linear(limits, k): k evenly spaced values over the
\* limits, or over the raster's data range when no limits are given.
linear(ds, limits, k) ==
    LET lo == IF limits = <<>> THEN ds.lo ELSE limits[1]
        hi == IF limits = <<>> THEN ds.hi ELSE limits[Len(limits)]
    IN  [i \in 1..k |-> IF k = 1 THEN lo ELSE lo + ((i - 1) * (hi - lo)) \div (k - 1)]

\* Python's zip: pairs up to the shorter sequence.
zip(a, b) == [i \in 1..Min(Len(a), Len(b)) |-> <<a[i], b[i]>>]

(***************************************************************************)
(* Bounding boxes as BoundingBoxField.to_python returns them: a polygon    *)
(* with an srid, or [] when from_bbox raises on the parsed values.         *)
(***************************************************************************)
NoBBox == [kind |-> "None", x0 |-> 0, y0 |-> 0, x1 |-> 0, y1 |-> 0, srid |-> 0]
EmptyBBox == [kind |-> "empty", x0 |-> 0, y0 |-> 0, x1 |-> 0, y1 |-> 0, srid |-> 0]
Polygon(x0, y0, x1, y1) ==
    [kind |-> "polygon", x0 |-> x0, y0 |-> y0, x1 |-> x1, y1 |-> y1, srid |-> 4326]

\* BoundingBoxField.to_python on the comma separated floats already parsed.
BoundingBoxField_to_python(value) ==
    IF Len(value) = 4 THEN Polygon(value[1], value[2], value[3], value[4])
    ELSE EmptyBBox

BBoxValues == {<<>>, <<0, 0, 2, 1>>, <<3, 1, 1, 2>>, <<1, 1, 1, 5>>}
BBoxes == {NoBBox} \cup {BoundingBoxField_to_python(v) : v \in BBoxValues}

\* bool(bbox): None and [] are false, a polygon has one ring and is true.
bbox_truth(bbox) == bbox.kind = "polygon"
\* bbox.area
area(bbox) == Abs(bbox.x1 - bbox.x0) * Abs(bbox.y1 - bbox.y0)
\* bbox.transform(srs): to the map's projection, here a change of unit.
transform(bbox, srs) ==
    IF srs = "+init=epsg:3857" /\ bbox.srid = 4326
    THEN [bbox EXCEPT !.x0 = @ * 100, !.y0 = @ * 100, !.x1 = @ * 100,
                      !.y1 = @ * 100, !.srid = 3857]
    ELSE bbox
\* bbox.extent: (xmin, ymin, xmax, ymax)
extent(bbox) == <<Min(bbox.x0, bbox.x1), Min(bbox.y0, bbox.y1),
                  Max(bbox.x0, bbox.x1), Max(bbox.y0, bbox.y1)>>

(***************************************************************************)
(* carto.py: the Map.  styles is the style registry in registration order, *)
(* each entry naming the symbolizer object of its rule (0: a style of the  *)
(* map template, which has no symbolizer built by a layer); layers is the  *)
(* ordered layer list; syms holds the symbolizer objects built by          *)
(* Layer.style(), a raster symbolizer carrying its colorizer's stops.      *)
(***************************************************************************)
TemplateStyles == {<<>>, <<[name |-> "roads", sym |-> 0]>>}

\* Map.__init__: a 256x256 map in web mercator, with the template's styles
\* when map.xml loads and empty when load_map raises RuntimeError.
Map_init(template) ==
    [mapfile |-> template, srs |-> "+init=epsg:3857", extent |-> <<0, 0, 0, 0>>,
     styles |-> template, layers |-> <<>>, syms |-> <<>>]

\* mapnik's Map.find_style: the index of the style, or 0 for KeyError.
find_style(map, name) ==
    IF \E i \in 1..Len(map.styles) : map.styles[i].name = name
    THEN CHOOSE i \in 1..Len(map.styles) : map.styles[i].name = name
    ELSE 0

\* Layer.__init__ and RasterLayer.__init__: the layer's name and style name.
Layer_init(queryset, stylename) ==
    LET given == stylename # NoStyle /\ stylename # ""
    IN  [name |-> queryset.name, kind |-> queryset.kind,
         stylename |-> IF given THEN stylename
                       ELSE IF queryset.kind = "vector" THEN queryset.name
                       ELSE DefaultRamp,
         styles |-> <<>>, symbolizer |-> 0, ds |-> queryset]

\* VectorLayer.symbolizer and RasterLayer.symbolizer.
symbolizer(lyr) ==
    IF lyr.kind = "raster" THEN [kind |-> "Raster", stops |-> <<>>]
    ELSE [kind |-> CASE lyr.ds.geomtype = "Point" -> "Point"
                     [] lyr.ds.geomtype = "LineString" -> "Line"
                     [] OTHER -> "Polygon",
          stops |-> <<>>]

\* Map.layer as it would be if it built and appended the layer's style on
\* every call, without looking the style name up first (mapnik's
\* append_style keeps the first style registered under a name).
layer_always_builds(map, queryset, stylename) ==
    LET lyr == Layer_init(queryset, stylename)
        found == find_style(map, lyr.stylename) # 0
        syms1 == Append(map.syms, symbolizer(lyr))
        styles1 == IF found THEN map.styles
                   ELSE Append(map.styles, [name |-> lyr.stylename, sym |-> Len(syms1)])
        lyr2 == [lyr EXCEPT !.symbolizer = Len(syms1),
                            !.styles = Append(@, lyr.stylename)]
    IN  [map EXCEPT !.syms = syms1, !.styles = styles1,
                    !.layers = Append(@, lyr2)]

\* Map.layer: the map after the call; the new layer is its last layer.
layer(map, queryset, stylename) ==
    LET lyr == Layer_init(queryset, stylename)
        found == find_style(map, lyr.stylename) # 0
        \* except KeyError: append_style(layer.stylename, layer.style())
        syms1 == IF found THEN map.syms ELSE Append(map.syms, symbolizer(lyr))
        lyr1 == IF found THEN lyr ELSE [lyr EXCEPT !.symbolizer = Len(syms1)]
        styles1 == IF found THEN map.styles
                   ELSE Append(map.styles, [name |-> lyr.stylename, sym |-> Len(syms1)])
        lyr2 == [lyr1 EXCEPT !.styles = Append(@, lyr.stylename)]
    IN  [map EXCEPT !.syms = syms1, !.styles = styles1,
                    !.layers = Append(@, lyr2)]

\* Map.zoom_bbox as it would be without the test of bbox.area.
zoom_bbox_any_area(map, bbox) ==
    IF bbox_truth(bbox)
    THEN [map EXCEPT !.extent = extent(transform(bbox, map.srs))]
    ELSE map

\* Map.zoom_bbox
zoom_bbox(map, bbox) ==
    IF bbox_truth(bbox) /\ area(bbox) # 0
    THEN [map EXCEPT !.extent = extent(transform(bbox, map.srs))]
    ELSE map

\* RasterLayer.add_colorizer_stops on the map's i-th layer: the map after
\* the call and the exception raised, if any.
add_colorizer_stops(map, i, limits) ==
    LET lyr == map.layers[i]
        rcolors == colormap_get(lyr.stylename)
        bins == linear(lyr.ds, limits, Len(rcolors))
        pairs == zip(bins, rcolors)
    IN  IF rcolors = <<>> \/ pairs = <<>>
        THEN [map |-> map, err |-> "none", k |-> 0]
        ELSE IF lyr.symbolizer = 0
        THEN [map |-> map, err |-> "AttributeError", k |-> Len(rcolors)]
        ELSE [map |-> [map EXCEPT !.syms[lyr.symbolizer].stops = @ \o pairs],
              err |-> "none", k |-> Len(rcolors)]

\* Map.render as it would be if it zoomed to the layers' full extent
\* before drawing.
render_zoom_all(map, format) ==
    LET zoomed == [map EXCEPT !.extent = <<-180, -90, 180, 90>>]
    IN  [map |-> zoomed,
         img |-> [format |-> format, extent |-> zoomed.extent, srs |-> zoomed.srs,
                  layers |-> [i \in 1..Len(zoomed.layers) |-> zoomed.layers[i].name]]]

\* Map.render: the image drawn from the map, and the map after the call.
render(map, format) ==
    [map |-> map,
     img |-> [format |-> format, extent |-> map.extent, srs |-> map.srs,
              layers |-> [i \in 1..Len(map.layers) |-> map.layers[i].name]]]

\* build_map's loop over the querysets: the map and the exception, if any.
RECURSIVE build_layers(_, _, _, _)
build_layers(map, querysets, stylename, limits) ==
    IF querysets = <<>> THEN [map |-> map, err |-> "none"]
    ELSE LET m1 == layer(map, Head(querysets), stylename)
             r == IF m1.layers[Len(m1.layers)].kind = "raster"
                  THEN add_colorizer_stops(m1, Len(m1.layers), limits)
                  ELSE [map |-> m1, err |-> "none", k |-> 0]
         IN  IF r.err # "none" THEN [map |-> r.map, err |-> r.err]
             ELSE build_layers(r.map, Tail(querysets), stylename, limits)

\* tileform.cleaned_data if tileform.is_valid() else {}, read with get().
cleaned(tileform) ==
    IF tileform.valid THEN tileform.cleaned_data
    ELSE [bbox |-> NoBBox, style |-> NoStyle, limits |-> <<>>]

\* build_map(querysets, tileform) on a Map made from the given template.
build_map(template, querysets, tileform) ==
    LET data == cleaned(tileform)
        m0 == zoom_bbox(Map_init(template), data.bbox)
    IN  build_layers(m0, querysets, data.style, data.limits)

TileForms ==
    [valid : BOOLEAN,
     cleaned_data : [bbox : BBoxes, style : StyleNames, limits : Limits]]

RECURSIVE SeqsUpTo(_, _)
SeqsUpTo(S, n) ==
    IF n = 0 THEN {<<>>}
    ELSE LET shorter == SeqsUpTo(S, n - 1)
         IN  shorter \cup {Append(q, x) : q \in shorter, x \in S}

NoImg == [format |-> "none", extent |-> <<>>, srs |-> "", layers |-> <<>>]
Formats == {"png", "jpeg"}

(***************************************************************************)
(* The Map API as actions on one Map.                                      *)
(***************************************************************************)
MapInit ==
    /\ m \in {Map_init(t) : t \in TemplateStyles}
    /\ call = [op |-> "Map", args |-> <<>>, err |-> "none", img |-> NoImg]
    /\ added = <<>>

\* A call that raised inside build_map leaves no Map to the caller.
MapUsable == ~(call.op = "build_map" /\ call.err # "none")

ZoomBbox(bbox) ==
    /\ UNCHANGED <<collvars, filevars>>
    /\ MapUsable
    /\ m' = zoom_bbox(m, bbox)
    /\ call' = [op |-> "zoom_bbox", args |-> <<bbox>>, err |-> "none", img |-> NoImg]
    /\ UNCHANGED added

AddLayer(queryset, stylename) ==
    /\ UNCHANGED <<collvars, filevars>>
    /\ MapUsable
    /\ Len(m.layers) < MaxLayers
    /\ m' = layer(m, queryset, stylename)
    /\ call' = [op |-> "layer", args |-> <<queryset, stylename>>,
                err |-> "none", img |-> NoImg]
    /\ added' = Append(added, queryset.name)

AddColorizerStops(i, limits) ==
    /\ UNCHANGED <<collvars, filevars>>
    /\ MapUsable
    /\ i \in 1..Len(m.layers)
    /\ m.layers[i].kind = "raster"
    /\ m.layers[i].symbolizer # 0 =>
           Len(m.syms[m.layers[i].symbolizer].stops)
               < MaxStopCalls * Len(colormap_get(m.layers[i].stylename))
    /\ LET r == add_colorizer_stops(m, i, limits)
       IN  /\ m' = r.map
           /\ call' = [op |-> "add_colorizer_stops", args |-> <<i, limits>>,
                       err |-> r.err, img |-> NoImg]
    /\ UNCHANGED added

Render(format) ==
    /\ UNCHANGED <<collvars, filevars>>
    /\ MapUsable
    /\ LET r == render(m, format)
       IN  /\ m' = r.map
           /\ call' = [op |-> "render", args |-> <<format>>, err |-> "none",
                       img |-> r.img]
    /\ UNCHANGED added

BuildMap(querysets, tileform) ==
    /\ UNCHANGED <<collvars, filevars>>
    /\ call.op = "Map"
    /\ LET r == build_map(m.mapfile, querysets, tileform)
       IN  /\ m' = r.map
           /\ call' = [op |-> "build_map", args |-> <<querysets, tileform>>,
                       err |-> r.err, img |-> NoImg]
           /\ added' = [i \in 1..Len(r.map.layers) |-> r.map.layers[i].name]

MapNext ==
    \/ \E bbox \in BBoxes : ZoomBbox(bbox)
    \/ \E queryset \in Datasets, stylename \in StyleNames : AddLayer(queryset, stylename)
    \/ \E i \in 1..MaxLayers + 1, limits \in Limits : AddColorizerStops(i, limits)
    \/ \E format \in Formats : Render(format)
    \/ /\ call.op = "Map"
       /\ \E querysets \in SeqsUpTo(Datasets, MaxLayers), tileform \in TileForms :
             BuildMap(querysets, tileform)


(***************************************************************************)
(* collections.py.  Python values are tagged: k is the type (None, int,    *)
(* str, list, dict and the dict subclasses Feature, FeatureCollection and  *)
(* NamedCRS) and v the payload: an integer, a string's words in order, a   *)
(* list's elements in order, a mapping's items as a function of its keys.  *)
(* A call returns a value or Raise(exception).                             *)
(***************************************************************************)
PyNone == [k |-> "None", v |-> <<>>]
PyInt(n) == [k |-> "int", v |-> n]
PyStr(words) == [k |-> "str", v |-> words]
PyList(elems) == [k |-> "list", v |-> elems]
PyDict(items) == [k |-> "dict", v |-> items]
Raise(exc) == [k |-> "raise", v |-> exc]

MappingKinds == {"dict", "Feature", "FeatureCollection", "NamedCRS"}
IsMapping(x) == x.k \in MappingKinds
IsRaise(x) == x.k = "raise"
\* isinstance(x, collections.Sequence)
IsSequence(x) == x.k \in {"list", "str"}

\* A key that is not a string, and the keys in the order a mapping is
\* iterated (CPython keeps one order per key set).
NonStrKey == "#5"
KeyOrder == <<"type", "id", "geometry", "properties", "crs", "features",
              "name", "coordinates", "iterable", "self", NonStrKey>>
Keys(items) == SelectSeq(KeyOrder, LAMBDA key : key \in DOMAIN items)
Restrict(items, keys) == [key \in DOMAIN items \cap keys |-> items[key]]
Get(items, key, default) == IF key \in DOMAIN items THEN items[key] ELSE default

\* bool(x)
truth(x) ==
    CASE x.k = "None" -> FALSE
      [] x.k = "int" -> x.v # 0
      [] x.k \in {"str", "list"} -> Len(x.v) > 0
      [] OTHER -> DOMAIN x.v # {}

\* key in x: "True", "False", or "TypeError" where x is not a container.
contains(key, x) ==
    CASE IsMapping(x) -> IF key \in DOMAIN x.v THEN "True" ELSE "False"
      [] x.k = "str" -> IF \E i \in 1..Len(x.v) : x.v[i] = key THEN "True" ELSE "False"
      [] x.k = "list" ->
            IF \E i \in 1..Len(x.v) : x.v[i].k = "str" /\ x.v[i].v = <<key>>
            THEN "True" ELSE "False"
      [] OTHER -> "TypeError"

\* has_features
has_features(fcollection) == contains("features", fcollection) = "True"

\* is_featurelike
is_featurelike(feature) ==
    contains("geometry", feature) = "True" /\ contains("properties", feature) = "True"

\* dict.update(iterable) on a mapping's items: the items, or the exception.
IsPair(x) == x.k = "list" /\ Len(x.v) = 2 /\ x.v[1].k = "str" /\ Len(x.v[1].v) = 1
RECURSIVE update_pairs(_, _)
update_pairs(items, pairs) ==
    IF pairs = <<>> THEN items
    ELSE LET key == Head(pairs).v[1].v[1]
         IN  update_pairs([n \in {key} |-> Head(pairs).v[2]] @@ items, Tail(pairs))
update(items, iterable) ==
    CASE IsMapping(iterable) -> [err |-> "none", items |-> iterable.v @@ items]
      [] iterable.k = "list" ->
            IF \A i \in 1..Len(iterable.v) : IsPair(iterable.v[i])
            THEN [err |-> "none", items |-> update_pairs(items, iterable.v)]
            ELSE [err |-> "ValueError", items |-> items]
      [] iterable.k = "str" ->
            IF iterable.v = <<>> THEN [err |-> "none", items |-> items]
            ELSE [err |-> "ValueError", items |-> items]
      [] OTHER -> [err |-> "TypeError", items |-> items]

\* NamedCRS(srid)
NamedCRS(srid) ==
    LET named == [n \in {"type"} |-> PyStr(<<"name">>)]
    IN  IF srid.k = "int"
        THEN [k |-> "NamedCRS",
              v |-> [n \in {"properties"} |->
                        PyDict([p \in {"name"} |->
                            PyStr(<<"urn:ogc:def:crs:EPSG::" \o ToString(srid.v)>>)])]
                    @@ named]
        ELSE LET u == update(named, srid)
             IN  IF u.err # "none" THEN Raise(u.err)
                 ELSE [k |-> "NamedCRS", v |-> u.items]

\* f(**data): the keywords, or the TypeError Python raises when data is no
\* mapping, a key is no string, or a key names the receiver.
keywords(data) ==
    IF ~IsMapping(data) \/ NonStrKey \in DOMAIN data.v \/ "self" \in DOMAIN data.v
    THEN Raise("TypeError")
    ELSE PyDict(data.v)

\* The part of __init__ shared by Feature and FeatureCollection once the
\* standard keys are set: the crs key, then update(iterable, **kwargs).
finish_init(cls, items, kw, params) ==
    LET crs == Get(kw, "crs", PyNone)
        named == IF truth(crs) THEN NamedCRS(crs) ELSE PyNone
        items1 == IF truth(crs) /\ ~IsRaise(named)
                  THEN [n \in {"crs"} |-> named] @@ items ELSE items
        u == update(items1, Get(kw, "iterable", PyList(<<>>)))
        kwargs == Restrict(kw, DOMAIN kw \ params)
    IN  IF IsRaise(named) THEN named
        ELSE IF u.err # "none" THEN Raise(u.err)
        ELSE [k |-> cls, v |-> kwargs @@ u.items]

FeatureParams == {"id", "geometry", "properties", "crs", "iterable"}

\* Feature.__init__ as it would be if it stored geometry and properties as
\* given, without the defaults for empty values.
Feature_init_as_given(kw) ==
    finish_init("Feature",
        [n \in {"type", "id", "geometry", "properties"} |->
            CASE n = "type" -> PyStr(<<"Feature">>)
              [] n = "id" -> Get(kw, "id", PyNone)
              [] n = "geometry" -> Get(kw, "geometry", PyNone)
              [] OTHER -> Get(kw, "properties", PyNone)],
        kw, FeatureParams)

\* Feature.__init__ called with the keywords kw.
Feature_init(kw) ==
    LET geometry == Get(kw, "geometry", PyNone)
        properties == Get(kw, "properties", PyNone)
    IN  finish_init("Feature",
            [n \in {"type", "id", "geometry", "properties"} |->
                CASE n = "type" -> PyStr(<<"Feature">>)
                  [] n = "id" -> Get(kw, "id", PyNone)
                  [] n = "geometry" -> IF truth(geometry) THEN geometry ELSE PyDict(<<>>)
                  [] OTHER -> IF truth(properties) THEN properties ELSE PyDict(<<>>)],
            kw, FeatureParams)

\* Feature(**data)
Feature(data) ==
    LET kw == keywords(data) IN IF IsRaise(kw) THEN kw ELSE Feature_init(kw.v)

\* [Feature(**feat) for feat in features]: the list, or the first exception.
RECURSIVE FeatureEach(_)
FeatureEach(elems) ==
    IF elems = <<>> THEN PyList(<<>>)
    ELSE LET first == Feature(Head(elems))
             rest == FeatureEach(Tail(elems))
         IN  IF IsRaise(first) THEN first
             ELSE IF IsRaise(rest) THEN rest
             ELSE PyList(<<first>> \o rest.v)

\* The elements iterating x yields, or the TypeError for a non-iterable.
Iterate(x) ==
    CASE x.k = "list" -> PyList(x.v)
      [] x.k = "str" -> PyList([i \in 1..Len(x.v) |-> PyStr(<<x.v[i]>>)])
      [] IsMapping(x) -> PyList([i \in 1..Len(Keys(x.v)) |-> PyStr(<<Keys(x.v)[i]>>)])
      [] OTHER -> Raise("TypeError")

\* x[0]
First(x) ==
    CASE x.k \in {"list", "str"} -> IF Len(x.v) > 0 THEN Iterate(x).v[1] ELSE Raise("IndexError")
      [] IsMapping(x) -> Raise("KeyError")
      [] OTHER -> Raise("TypeError")

FeatureCollectionParams == {"features", "crs", "iterable"}

\* FeatureCollection.__init__ called with the keywords kw.
FeatureCollection_init(kw) ==
    LET features == Get(kw, "features", PyNone)
        first == IF truth(features) THEN First(features) ELSE PyNone
        each == IF truth(features) /\ ~IsRaise(first) /\ first.k # "Feature"
                THEN FeatureEach(Iterate(features).v)
                ELSE IF truth(features) THEN features ELSE PyList(<<>>)
        crs == Get(kw, "crs", PyNone)
        named == IF truth(crs) THEN NamedCRS(crs) ELSE PyNone
    IN  IF IsRaise(named) THEN named
        ELSE IF IsRaise(first) THEN first
        ELSE IF IsRaise(each) THEN each
        ELSE finish_init("FeatureCollection",
                 [n \in {"type", "features"} |->
                     IF n = "type" THEN PyStr(<<"FeatureCollection">>) ELSE each],
                 kw, FeatureCollectionParams)

\* FeatureCollection(**data)
FeatureCollection(data) ==
    LET kw == keywords(data)
    IN  IF IsRaise(kw) THEN kw ELSE FeatureCollection_init(kw.v)

\* as_feature
as_feature(data) ==
    IF data.k \in {"Feature", "FeatureCollection"} THEN data
    ELSE IF is_featurelike(data) THEN Feature(data)
    ELSE IF has_features(data) THEN FeatureCollection(data)
    ELSE IF IsSequence(data) THEN FeatureCollection_init([n \in {"features"} |-> data])
    ELSE IF data.k = "dict" /\ ~truth(data) THEN Feature_init(<<>>)
    ELSE data

(***************************************************************************)
(* Serialization.  A text is the sequence of its tokens; the braces and    *)
(* brackets and the separators json writes (", " and ": ") are tokens of   *)
(* their own, so that slicing a character off either end is dropping a     *)
(* token.                                                                  *)
(***************************************************************************)
RECURSIVE Join(_, _)
Join(sep, texts) ==
    IF texts = <<>> THEN <<>>
    ELSE IF Len(texts) = 1 THEN texts[1]
    ELSE texts[1] \o sep \o Join(sep, Tail(texts))

Quote(q, word) == q \o word \o q
RECURSIVE Concat(_)
Concat(words) == IF words = <<>> THEN "" ELSE Head(words) \o Concat(Tail(words))

\* json.dumps(x)
RECURSIVE json_dumps(_)
json_dumps(x) ==
    CASE x.k = "None" -> <<"null">>
      [] x.k = "int" -> <<ToString(x.v)>>
      [] x.k = "str" -> <<Quote("\"", Concat(x.v))>>
      [] x.k = "list" ->
            <<"[">> \o Join(<<", ">>, [i \in 1..Len(x.v) |-> json_dumps(x.v[i])]) \o <<"]">>
      [] OTHER ->
            <<"{">> \o
            Join(<<", ">>, [i \in 1..Len(Keys(x.v)) |->
                <<Quote("\"", Keys(x.v)[i]), ": ">> \o json_dumps(x.v[Keys(x.v)[i]])]) \o
            <<"}">>

\* repr(x): Python's own notation, which is not JSON.
RECURSIVE repr(_)
repr(x) ==
    CASE x.k = "None" -> <<"None">>
      [] x.k = "int" -> <<ToString(x.v)>>
      [] x.k = "str" -> <<Quote("'", Concat(x.v))>>
      [] x.k = "list" ->
            <<"[">> \o Join(<<", ">>, [i \in 1..Len(x.v) |-> repr(x.v[i])]) \o <<"]">>
      [] OTHER ->
            <<"{">> \o
            Join(<<", ">>, [i \in 1..Len(Keys(x.v)) |->
                <<Quote("'", Keys(x.v)[i]), ": ">> \o repr(x.v[Keys(x.v)[i]])]) \o
            <<"}">>

\* text[1:-1] and text[:-1]
StripEnds(text) == SubSeq(text, 2, Len(text) - 1)
StripLast(text) == SubSeq(text, 1, Len(text) - 1)

\* Feature.__str__
Feature_str(self) ==
    LET geom_ == IF truth(self.v["geometry"]) THEN self.v["geometry"] ELSE PyStr(<<"{}">>)
        keys == DOMAIN self.v \ {"geometry"}
        props == StripEnds(json_dumps(PyDict(Restrict(self.v, keys))))
    IN  IF IsMapping(geom_) THEN json_dumps(self)
        ELSE <<"{", "\"geometry\"", ": ">> \o
             (IF geom_.k = "str" THEN geom_.v ELSE repr(geom_)) \o
             <<", ">> \o props \o <<"}">>

\* str(x): a Feature or FeatureCollection writes itself, a string is its
\* own text, anything else has only its repr.
RECURSIVE str(_)
RECURSIVE FeatureCollection_str(_)
str(x) ==
    CASE x.k = "Feature" -> Feature_str(x)
      [] x.k = "FeatureCollection" -> FeatureCollection_str(x)
      [] x.k = "str" -> x.v
      [] OTHER -> repr(x)

\* FeatureCollection.__str__: the text, or <<"raise", exception>>.
FeatureCollection_str(self) ==
    LET members == Iterate(self.v["features"])
        features == Join(<<",">>, [i \in 1..Len(members.v) |-> str(members.v[i])])
        keys == DOMAIN self.v \ {"features"}
        collection == StripLast(json_dumps(PyDict(Restrict(self.v, keys))))
                          \o <<", ", "\"features\"", ": ", "[">>
    IN  IF IsRaise(members) THEN <<"raise", members.v>>
        ELSE collection \o features \o <<"]", "}">>

(***************************************************************************)
(* collections.py: the values the calls are made on.                       *)
(***************************************************************************)
Point == PyDict([type |-> PyStr(<<"Point">>),
                 coordinates |-> PyList(<<PyInt(1), PyInt(2)>>)])
PointText == PyStr(<<"{\"type\": \"Point\", \"coordinates\": [1, 2]}">>)

GeomValues == {PyNone, PyDict(<<>>), PyStr(<<>>), PyList(<<>>), PyInt(0), Point, PointText}
PropValues == {PyNone, PyDict(<<>>), PyDict([name |-> PyStr(<<"a">>)])}
ExtraItems ==
    { <<>>,
      [id |-> PyInt(7)],
      [crs |-> PyInt(4326)],
      [crs |-> PyStr(<<"EPSG:4326">>)],
      [name |-> PyStr(<<"x">>)],
      [iterable |-> PyDict([geometry |-> PyNone])],
      [iterable |-> PyInt(1)],
      [self |-> PyInt(1)],
      [key \in {NonStrKey} |-> PyInt(1)] }

\* Mappings holding a geometry and a properties key.
FeatureLikes ==
    {PyDict(e @@ [geometry |-> g, properties |-> p]) :
        g \in GeomValues, p \in PropValues, e \in ExtraItems}

\* Feature instances: what the constructor makes of such mappings.
Features == {f \in {Feature(x) : x \in FeatureLikes} : ~IsRaise(f)}

ListElems ==
    { PyDict([geometry |-> Point, properties |-> PyDict([name |-> PyStr(<<"a">>)])]),
      PyDict([geometry |-> PyNone, properties |-> PyDict(<<>>)]),
      Feature(PyDict([geometry |-> Point, properties |-> PyNone, id |-> PyInt(7)])),
      Feature(PyDict([geometry |-> PointText, properties |-> PyNone,
                      crs |-> PyInt(4326)])),
      PyDict([name |-> PyStr(<<"x">>)]),
      PyInt(5) }

Lists == {PyList(q) : q \in SeqsUpTo(ListElems, MaxLen)}

OtherValues ==
    { PyNone, PyInt(0), PyInt(5), PyStr(<<>>), PyStr(<<"abc">>),
      PyStr(<<"{", "geometry", "properties", "}">>), PyStr(<<"features">>),
      PyList(<<PyStr(<<"geometry">>), PyStr(<<"properties">>)>>),
      PyDict(<<>>), PyDict([name |-> PyInt(1)]),
      PyDict([features |-> PyNone]), PyDict([features |-> PyInt(5)]),
      PyDict([features |-> PyDict([name |-> PyInt(1)])]) }
    \cup {PyDict([features |-> l]) : l \in Lists}
    \cup {c \in {FeatureCollection_init([features |-> l]) : l \in Lists} : ~IsRaise(c)}

Inputs == FeatureLikes \cup Features \cup Lists \cup OtherValues

(***************************************************************************)
(* collections.py: the calls as actions.                                   *)
(***************************************************************************)
CollInit ==
    /\ obj \in Inputs
    /\ cop = "none"
    /\ ret = PyNone
    /\ printed = <<>>

CallAsFeature ==
    /\ UNCHANGED <<mapvars, filevars>>
    /\ cop = "none"
    /\ cop' = "as_feature"
    /\ ret' = as_feature(obj)
    /\ UNCHANGED <<obj, printed>>

\* FeatureCollection(features=obj)
CallFeatureCollection ==
    /\ UNCHANGED <<mapvars, filevars>>
    /\ cop = "none"
    /\ cop' = "FeatureCollection"
    /\ ret' = FeatureCollection_init([n \in {"features"} |-> obj])
    /\ UNCHANGED <<obj, printed>>

CallStr ==
    /\ UNCHANGED <<mapvars, filevars>>
    /\ cop # "none"
    /\ ret.k \in {"Feature", "FeatureCollection"}
    /\ printed = <<>>
    /\ printed' = str(ret)
    /\ UNCHANGED <<obj, cop, ret>>

CollNext == CallAsFeature \/ CallFeatureCollection \/ CallStr

(***************************************************************************)
(* fields.py: GeometryFileField.to_python, one action per statement.  An   *)
(* upload is None (no file) or a file: whether it is a zip archive, the    *)
(* archive's members by base name with whether each can be read, and what  *)
(* GDAL makes of the file opened in the end.                               *)
(***************************************************************************)
NoUpload == [kind |-> "None"]
Members ==
    { [base |-> "a.dbf", readable |-> TRUE], [base |-> "a.shp", readable |-> TRUE],
      [base |-> "a.shp", readable |-> FALSE], [base |-> "", readable |-> TRUE] }
Uploads ==
    {NoUpload} \cup
    [kind : {"file"}, name : {"upload.zip"}, zip : {TRUE}, opens : BOOLEAN,
     namelist : SeqsUpTo(Members, MaxItems),
     source : {"ok", "OGRException", "OGRIndexError"},
     geoms : {0, 2}, union : {"ok", "OGRException"}, srs : BOOLEAN] \cup
    [kind : {"file"}, name : {"upload.json"}, zip : {FALSE}, opens : {TRUE},
     namelist : {<<>>},
     source : {"ok", "OGRException", "OGRIndexError"},
     geoms : {0, 2}, union : {"ok", "OGRException"}, srs : BOOLEAN]

FileInit ==
    /\ upload \in Uploads
    /\ pc = "to_python"
    /\ dirs = <<>>
    /\ tmpdir = "None"
    /\ filename = "None"
    /\ item = 0
    /\ geom = "None"
    /\ raising = "none"

\* value = super().to_python(value); if value is None: return value;
\* filename = value.name; tmpdir = None; if zipfile.is_zipfile(value):
Enter ==
    /\ UNCHANGED <<mapvars, collvars>>
    /\ pc = "to_python"
    /\ IF upload.kind = "None"
       THEN pc' = "returned" /\ UNCHANGED filename
       ELSE /\ filename' = upload.name
            /\ pc' = IF upload.zip THEN "mkdtemp" ELSE "DataSource"
    /\ UNCHANGED <<upload, dirs, tmpdir, item, geom, raising>>

\* tmpdir = tempfile.mkdtemp()
Mkdtemp ==
    /\ UNCHANGED <<mapvars, collvars>>
    /\ pc = "mkdtemp"
    /\ tmpdir' = "/tmp/tmp1"
    /\ dirs' = [d \in {"/tmp/tmp1"} |-> {}]
    /\ pc' = "ZipFile"
    /\ UNCHANGED <<upload, filename, item, geom, raising>>

\* zf = zipfile.ZipFile(value), which raises on a damaged archive.
OpenZip ==
    /\ UNCHANGED <<mapvars, collvars>>
    /\ pc = "ZipFile"
    /\ IF upload.opens
       THEN pc' = "extract" /\ item' = 1 /\ UNCHANGED raising
       ELSE pc' = "raised" /\ raising' = "BadZipfile" /\ UNCHANGED item
    /\ UNCHANGED <<upload, dirs, tmpdir, filename, geom>>

\* One round of: for item in zf.namelist(): filename = join(tmpdir,
\* basename(item)); with open(filename, 'wb') as f: f.write(zf.read(item));
\* if filename.endswith('.shp'): break
Extract ==
    /\ UNCHANGED <<mapvars, collvars>>
    /\ pc = "extract"
    /\ IF item > Len(upload.namelist)
       THEN pc' = "DataSource" /\ UNCHANGED <<filename, dirs, item, raising>>
       ELSE LET member == upload.namelist[item]
            IN  /\ filename' = tmpdir \o "/" \o member.base
                /\ IF member.base = ""
                   THEN \* open() of the directory itself
                        pc' = "raised" /\ raising' = "IOError" /\ UNCHANGED <<dirs, item>>
                   ELSE /\ dirs' = [dirs EXCEPT ![tmpdir] = @ \cup {member.base}]
                        /\ IF ~member.readable
                           THEN pc' = "raised" /\ raising' = "BadZipfile" /\ UNCHANGED item
                           ELSE /\ UNCHANGED raising
                                /\ IF member.base = "a.shp"
                                   THEN pc' = "DataSource" /\ UNCHANGED item
                                   ELSE pc' = "extract" /\ item' = item + 1
    /\ UNCHANGED <<upload, tmpdir, geom>>

\* try: geoms = gdal.DataSource(filename)[0].get_geoms()
DataSource ==
    /\ UNCHANGED <<mapvars, collvars>>
    /\ pc = "DataSource"
    /\ IF upload.source = "ok"
       THEN pc' = "reduce" /\ UNCHANGED geom
       ELSE \* except (gdal.OGRException, gdal.OGRIndexError): geom = None
            pc' = "finally" /\ geom' = "None"
    /\ UNCHANGED <<upload, dirs, tmpdir, filename, item, raising>>

\* geom = reduce(lambda g1, g2: g1.union(g2), geoms), a TypeError on no
\* geometries, which no except clause catches.
Reduce ==
    /\ UNCHANGED <<mapvars, collvars>>
    /\ pc = "reduce"
    /\ IF upload.geoms = 0
       THEN pc' = "finally" /\ raising' = "TypeError" /\ UNCHANGED geom
       ELSE IF upload.union = "ok"
       THEN pc' = "srs" /\ geom' = "geometry" /\ UNCHANGED raising
       ELSE pc' = "finally" /\ geom' = "None" /\ UNCHANGED raising
    /\ UNCHANGED <<upload, dirs, tmpdir, filename, item>>

\* if not geom.srs: raise gdal.OGRException('Cannot determine SRS')
CheckSrs ==
    /\ UNCHANGED <<mapvars, collvars>>
    /\ pc = "srs"
    /\ geom' = IF upload.srs THEN geom ELSE "None"
    /\ pc' = "finally"
    /\ UNCHANGED <<upload, dirs, tmpdir, filename, item, raising>>

\* finally: if tmpdir and os.path.isdir(tmpdir): shutil.rmtree(tmpdir);
\* then return geom, or the exception goes on.
Finally ==
    /\ UNCHANGED <<mapvars, collvars>>
    /\ pc = "finally"
    /\ dirs' = IF tmpdir # "None" /\ tmpdir \in DOMAIN dirs THEN <<>> ELSE dirs
    /\ pc' = IF raising = "none" THEN "returned" ELSE "raised"
    /\ UNCHANGED <<upload, tmpdir, filename, item, geom, raising>>

FileNext ==
    \/ Enter
    \/ Mkdtemp
    \/ OpenZip
    \/ Extract
    \/ DataSource
    \/ Reduce
    \/ CheckSrs
    \/ Finally

(***************************************************************************)
(* Claims about the Map.                                                   *)
(***************************************************************************)
StylesNamed(map, name) == {i \in 1..Len(map.styles) : map.styles[i].name = name}
Builders(map, name) ==
    {i \in 1..Len(map.layers) :
        map.layers[i].stylename = name /\ map.layers[i].symbolizer # 0}
RegisteredNames(map) == {map.styles[i].name : i \in 1..Len(map.styles)}

\* C1: every style name is registered at most once and every layer lists
\* its own style name, which is registered; a Style is built by at most one
\* layer per name (none for a template style), so every symbolizer object
\* belongs to a registered style; and a layer call whose style name is
\* already registered leaves the registry and the built styles as they were.
C1_StyleRegisteredOnce ==
    /\ [](\A name \in RegisteredNames(m) \cup {l.stylename : l \in Range(m.layers)} :
            /\ Cardinality(StylesNamed(m, name)) = 1
            /\ Cardinality(Builders(m, name)) <= 1
            /\ [name |-> name, sym |-> 0] \in Range(m.mapfile) => Builders(m, name) = {})
    /\ [](\A i \in 1..Len(m.layers) : m.layers[i].styles = <<m.layers[i].stylename>>)
    /\ [](Len(m.syms) = Len(m.styles) - Len(m.mapfile))
    /\ [][call'.op = "layer" /\
            Layer_init(call'.args[1], call'.args[2]).stylename \in RegisteredNames(m)
            => m'.styles = m.styles /\ m'.syms = m.syms]_vars

\* C1 witness: two layers added with the same explicit style name, one
\* registered Style of that name.
C1_Witness ==
    /\ call.op = "layer" /\ call.args[2] = DefaultRamp
    /\ Len(m.layers) = 2
    /\ m.layers[1].stylename = DefaultRamp /\ m.layers[2].stylename = DefaultRamp
    /\ m.layers[1].name # m.layers[2].name
    /\ Cardinality(StylesNamed(m, DefaultRamp)) = 1

\* The form is invalid, or valid with bbox, style and limits all absent.
OptionalFieldsAbsent(tileform) ==
    \/ ~tileform.valid
    \/ /\ ~bbox_truth(tileform.cleaned_data.bbox)
       /\ tileform.cleaned_data.style = NoStyle
       /\ tileform.cleaned_data.limits = <<>>

\* C2 (as claimed): build_map raises nothing whenever the form is invalid
\* or its optional fields are absent, whatever the datasets.
C2_BuildMapNeverRaises ==
    call.op = "build_map" /\ OptionalFieldsAbsent(call.args[2]) => call.err = "none"

\* C3 (as claimed): add_colorizer_stops on a raster layer whose style name
\* has a registered ramp raises nothing and appends to the layer's raster
\* symbolizer exactly one stop per ramp color, the i-th pairing the i-th
\* binned value with the i-th color.
C3_StopsPerRampColor ==
    [][call'.op = "add_colorizer_stops" =>
        LET lyr == m.layers[call'.args[1]]
            ramp == colormap_get(lyr.stylename)
            bins == linear(lyr.ds, call'.args[2], Len(ramp))
        IN  ramp # <<>> =>
              /\ call'.err = "none"
              /\ lyr.symbolizer # 0
              /\ Len(bins) = Len(ramp)
              /\ m'.syms[lyr.symbolizer].stops =
                    m.syms[lyr.symbolizer].stops \o
                        [i \in 1..Len(ramp) |-> <<bins[i], ramp[i]>>]]_vars

\* C5: zoom_bbox with an absent bbox (None or []) or one of zero area
\* leaves the whole map as it was; with a bbox of non-zero area it changes
\* the extent alone, to the bbox's bounds in the map's projection.
C5_ZoomAbsentOrFlatIsNoOp ==
    [][call'.op = "zoom_bbox" =>
        LET bbox == call'.args[1]
        IN  IF bbox.kind # "polygon" \/ bbox.x0 = bbox.x1 \/ bbox.y0 = bbox.y1
            THEN m' = m
            ELSE /\ m'.extent = <<100 * Min(bbox.x0, bbox.x1), 100 * Min(bbox.y0, bbox.y1),
                                  100 * Max(bbox.x0, bbox.x1), 100 * Max(bbox.y0, bbox.y1)>>
                 /\ m' = [m EXCEPT !.extent = m'.extent]]_vars

\* C5 witness: a zoom to a bbox of zero area was called on a map already
\* zoomed and holding a layer.
C5_Witness ==
    /\ call.op = "zoom_bbox"
    /\ call.args[1].kind = "polygon" /\ area(call.args[1]) = 0
    /\ m.extent # <<0, 0, 0, 0>>
    /\ m.layers # <<>>

\* C6: a render call leaves the map (layers, registry, projection, extent)
\* as it was, and draws the layers in the order they were added, at the
\* map's extent and projection.
C6_RenderKeepsMap ==
    /\ [][call'.op = "render" =>
            /\ m' = m
            /\ call'.img.format = call'.args[1]
            /\ call'.img.layers = added
            /\ call'.img.extent = m.extent /\ call'.img.srs = m.srs]_vars
    /\ [](added = [i \in 1..Len(m.layers) |-> m.layers[i].name])

\* C6 witness: a render after a zoom and two layers.
C6_Witness ==
    /\ call.op = "render" /\ call.img.format = "jpeg"
    /\ Len(call.img.layers) = 2
    /\ call.img.extent # <<0, 0, 0, 0>>

(***************************************************************************)
(* Claims about collections.py.                                            *)
(***************************************************************************)
\* C4 (as claimed): as_feature raises on no input; it returns a Feature, a
\* FeatureCollection or the input as it was.
C4_AsFeatureNeverRaises ==
    cop = "as_feature" =>
        /\ ~IsRaise(ret)
        /\ ret.k \in {"Feature", "FeatureCollection"} \/ ret = obj

BothKeys(x) == IsMapping(x) /\ {"geometry", "properties"} \subseteq DOMAIN x.v

PlainKeywords(x) ==
    /\ DOMAIN x.v \cap {"iterable", "self", NonStrKey} = {}
    /\ "crs" \in DOMAIN x.v =>
          ~truth(x.v["crs"]) \/ x.v["crs"].k = "int" \/ IsMapping(x.v["crs"])

\* None and the empty values of Python's types.
EmptyValues == {PyNone, PyStr(<<>>), PyDict(<<>>), PyList(<<>>), PyInt(0)}

FeatureLikeList(x) ==
    /\ x.k = "list"
    /\ \A i \in 1..Len(x.v) : BothKeys(x.v[i]) /\ x.v[i].k \in {"dict", "Feature"}

\* m1 == m2 in Python: mappings are equal when their items are, whatever
\* their classes.  The members compared here hold no mappings of another
\* class than their own inside.
PyEq(a, b) ==
    IF IsMapping(a) /\ IsMapping(b) THEN a.v = b.v ELSE a = b

\* C8 (as claimed): as_feature of a list of feature-like mappings is a
\* FeatureCollection with one Feature per element, the i-th equal to
\* as_feature of the i-th element.
C8_CollectionOfFeatures ==
    cop = "as_feature" /\ FeatureLikeList(obj) =>
        /\ ret.k = "FeatureCollection"
        /\ ret.v["features"].k = "list"
        /\ Len(ret.v["features"].v) = Len(obj.v)
        /\ \A i \in 1..Len(obj.v) :
              /\ ret.v["features"].v[i].k = "Feature"
              /\ PyEq(ret.v["features"].v[i], as_feature(obj.v[i]))

\* C9 (as claimed): the text of a FeatureCollection made by the constructor
\* is its other keys encoded, then a features array holding each member's
\* Feature serialization, in order and comma separated; [] when empty.
C9_CollectionText ==
    cop # "none" /\ ret.k = "FeatureCollection" /\ printed # <<>> =>
        LET members == ret.v["features"]
            head == StripLast(json_dumps(PyDict(Restrict(ret.v, DOMAIN ret.v \ {"features"}))))
        IN  /\ members.k = "list"
            /\ \A i \in 1..Len(members.v) : members.v[i].k = "Feature"
            /\ printed = head \o <<", ", "\"features\"", ": ", "[">> \o
                         Join(<<",">>, [i \in 1..Len(members.v) |->
                                           Feature_str(members.v[i])]) \o
                         <<"]", "}">>

(***************************************************************************)
(* Claims about fields.py.                                                 *)
(***************************************************************************)
\* C10 (as claimed): once to_python has returned or raised, the temporary
\* directory it made no longer exists.
C10_TmpdirRemoved ==
    pc \in {"returned", "raised"} /\ tmpdir # "None" => tmpdir \notin DOMAIN dirs

(***************************************************************************)
(* The specifications.  Each starts the part it is about and holds the     *)
(* other parts idle.                                                       *)
(***************************************************************************)
MapIdle == m = Map_init(<<>>) /\ call = [op |-> "none"] /\ added = <<>>
CollIdle == obj = PyNone /\ cop = "none" /\ ret = PyNone /\ printed = <<>>
FileIdle ==
    /\ upload = NoUpload /\ pc = "idle" /\ dirs = <<>> /\ tmpdir = "None"
    /\ filename = "None" /\ item = 0 /\ geom = "None" /\ raising = "none"

Init == MapInit /\ CollIdle /\ FileIdle
Spec == Init /\ [][MapNext]_vars

InitColl == CollInit /\ MapIdle /\ FileIdle
SpecColl == InitColl /\ [][CollNext]_vars

InitFile == FileInit /\ MapIdle /\ CollIdle
SpecFile == InitFile /\ [][FileNext]_vars

=============================================================================
